---- MODULE Spec2Model ----
(***************************************************************************)
(* A model of tweet-fs (src/main.rs): the FUSE filesystem TweetFS, whose   *)
(* only state is `files: Mutex<Slab<Vec<u8>>>`.  Every request is served   *)
(* by one invocation of TweetFS::call, running as its own task; the tasks  *)
(* interleave at the .await points of the handler.                         *)
(***************************************************************************)
EXTENDS Integers, Sequences, FiniteSets, TLC

\* ------------------------------------------------------------------ bounds
\* Requests dispatched over one run.
MaxOps == 4
\* Largest offset + size of a write request.
MaxLen == 2

\* The tasks that run TweetFS::call concurrently.
Tasks == {1, 2}
\* File handles a request may carry: the first two keys of the slab (each of
\* them is absent from the table until enough opens have run).
Fhs == {0, 1}
\* Payloads a write request may carry: nothing, ASCII 'a', and the two bytes
\* of U+00E9 (which overwriting or truncation splits into an incomplete
\* sequence, 195, and a stray continuation byte, 169).
Payloads == {<< >>, <<97>>, <<195, 169>>}
\* open(2) flags: O_RDONLY, O_WRONLY, O_RDWR, and O_WRONLY | O_APPEND.
OpenFlags == {0, 1, 2, 1025}

\* ------------------------------------------------------- program constants
O_ACCMODE == 3
O_WRONLY == 1
EPERM == 1
EIO == 5
\* U+FFFD REPLACEMENT CHARACTER, which String::from_utf8_lossy substitutes.
REPLACEMENT == 65533

VARIABLES
    entries,    \* Slab::entries: the slots of the slab behind self.files
    next,       \* Slab::next: the head of the slab's free list
    lock,       \* the task holding the MutexGuard of self.files, or 0
    pc,         \* where each task is in TweetFS::call
    req,        \* the Operation each task was called with
    replies,    \* what each task has sent through cx.reply / cx.reply_err
    key,        \* Open: the local `key`
    res,        \* Release: the local `res`, the outcome of the tweet
    published,  \* the DraftTweet::send calls made so far, in order
    nops,       \* requests dispatched so far
    nfiles,     \* successful Slab::insert calls so far (names the logical files)
    env,        \* what the process starts with: .env, arguments, environment
    boot,       \* where the process is in main / run
    exit        \* the exit status of the process, or -1 while it runs

vars ==
    <<entries, next, lock, pc, req, replies, key, res, published, nops, nfiles,
      env, boot, exit>>

\* ------------------------------------------------------------------- Slab
\* Entry::Vacant(next) and Entry::Occupied(val).  An occupied slot also
\* carries history variables: file, the number of the open that filled it;
\* hi, the largest offset + size of the writes completed on it; cov, the
\* indices those writes covered; torn, whether a write on it panicked between
\* its resize and its copy; ser, the buffer that the writes completed on it
\* give when each is applied whole (resize, then copy), one after another in
\* the order they took the lock.
Vacant(n) ==
    [occ |-> FALSE, nxt |-> n, val |-> << >>, file |-> 0, hi |-> 0, cov |-> {},
     torn |-> FALSE, ser |-> << >>]

Occupied(v, f) ==
    [occ |-> TRUE, nxt |-> 0, val |-> v, file |-> f, hi |-> 0, cov |-> {},
     torn |-> FALSE, ser |-> v]

\* Slab::get_mut(key).is_some(): key indexes an occupied slot (keys count from 0).
Contains(es, k) == k + 1 \in DOMAIN es /\ es[k + 1].occ

\* Slab::insert: the key the value goes to, and the slab after it.
InsertKey(n) == n

\* (mutant) insert that leaves the free list head where it was.
InsertNextStale(es, n) == n

\* (mutant) remove that hands out the value and leaves the slot occupied.
RemoveKeepsEntry(es, n, k) == es

\* (mutant) insert that fills a recycled slot with a buffer already holding a byte.
InsertEntriesDirty(es, k, v, f) ==
    IF k = Len(es) THEN Append(es, Occupied(v, f))
    ELSE [es EXCEPT ![k + 1] = Occupied(<<0>>, f)]

\* (mutant) remove that cuts the slab off at the key, dropping the slots after it.
RemoveTruncates(es, n, k) == SubSeq(es, 1, k) \o <<Vacant(n)>>

\* Slab::insert_at(key, val).
InsertEntries(es, k, v, f) ==
    IF k = Len(es) THEN Append(es, Occupied(v, f))
    ELSE [es EXCEPT ![k + 1] = Occupied(v, f)]

InsertNext(es, n) == IF n = Len(es) THEN n + 1 ELSE es[n + 1].nxt

\* Slab::remove of an occupied key: the slot joins the free list.
RemoveEntries(es, n, k) == [es EXCEPT ![k + 1] = Vacant(n)]

\* ------------------------------------------------------------------ Vec<u8>
Zeros(n) == [i \in 1..n |-> 0]

\* Vec::resize(new_len, 0): truncates, or extends with zeros.
Resize(v, n) == IF n <= Len(v) THEN SubSeq(v, 1, n) ELSE v \o Zeros(n - Len(v))

\* read_exact(&mut content[offset..offset + size]) with data arriving in full.
CopyAt(v, offset, data) ==
    [i \in 1..Len(v) |->
        IF i > offset /\ i <= offset + Len(data) THEN data[i - offset] ELSE v[i]]

\* ------------------------------------------------- String::from_utf8_lossy
\* A String is modelled as the sequence of its Unicode scalar values.
\* safe_get: the byte at i, or 0 past the end.
SafeGet(b, i) == IF i <= Len(b) THEN b[i] ELSE 0

\* A continuation byte, 10xxxxxx.
IsCont(x) == x >= 128 /\ x <= 191

\* utf8_char_width of a leading byte; 0 for a byte that cannot lead.
Utf8CharWidth(x) ==
    IF x < 128 THEN 1
    ELSE IF x >= 194 /\ x <= 223 THEN 2
    ELSE IF x >= 224 /\ x <= 239 THEN 3
    ELSE IF x >= 240 /\ x <= 244 THEN 4
    ELSE 0

\* The second byte a three-byte sequence led by f admits.
Second3(f, s) ==
    \/ f = 224 /\ s >= 160 /\ s <= 191
    \/ f >= 225 /\ f <= 236 /\ IsCont(s)
    \/ f = 237 /\ s >= 128 /\ s <= 159
    \/ f >= 238 /\ f <= 239 /\ IsCont(s)

\* The second byte a four-byte sequence led by f admits.
Second4(f, s) ==
    \/ f = 240 /\ s >= 144 /\ s <= 191
    \/ f >= 241 /\ f <= 243 /\ IsCont(s)
    \/ f = 244 /\ s >= 128 /\ s <= 143

RECURSIVE LossyFrom(_, _)
\* The decoding of b from index i on: each maximal ill-formed run of bytes
\* becomes one U+FFFD and decoding resumes at the byte that broke it.
LossyFrom(b, i) ==
    IF i > Len(b) THEN << >>
    ELSE LET f == b[i]
             w == Utf8CharWidth(f)
             b1 == SafeGet(b, i + 1)
             b2 == SafeGet(b, i + 2)
             b3 == SafeGet(b, i + 3)
         IN  IF w = 1 THEN <<f>> \o LossyFrom(b, i + 1)
             ELSE IF w = 2 THEN
                 IF ~IsCont(b1) THEN <<REPLACEMENT>> \o LossyFrom(b, i + 1)
                 ELSE <<(f - 192) * 64 + (b1 - 128)>> \o LossyFrom(b, i + 2)
             ELSE IF w = 3 THEN
                 IF ~Second3(f, b1) THEN <<REPLACEMENT>> \o LossyFrom(b, i + 1)
                 ELSE IF ~IsCont(b2) THEN <<REPLACEMENT>> \o LossyFrom(b, i + 2)
                 ELSE <<(f - 224) * 4096 + (b1 - 128) * 64 + (b2 - 128)>>
                          \o LossyFrom(b, i + 3)
             ELSE IF w = 4 THEN
                 IF ~Second4(f, b1) THEN <<REPLACEMENT>> \o LossyFrom(b, i + 1)
                 ELSE IF ~IsCont(b2) THEN <<REPLACEMENT>> \o LossyFrom(b, i + 2)
                 ELSE IF ~IsCont(b3) THEN <<REPLACEMENT>> \o LossyFrom(b, i + 3)
                 ELSE <<(f - 240) * 262144 + (b1 - 128) * 4096
                            + (b2 - 128) * 64 + (b3 - 128)>> \o LossyFrom(b, i + 4)
             ELSE <<REPLACEMENT>> \o LossyFrom(b, i + 1)

from_utf8_lossy(b) == LossyFrom(b, 1)

\* ----------------------------------------------------------------- requests
\* (mutant) the access mode taken to be the whole flags word.
AccModeUnmasked(flags) == flags

NoReq == [kind |-> "none", flags |-> 0, fh |-> 0, offset |-> 0, data |-> << >>]

GetattrReq == [NoReq EXCEPT !.kind = "getattr"]

OpenReq(flags) == [NoReq EXCEPT !.kind = "open", !.flags = flags]

WriteReq(fh, offset, data) ==
    [NoReq EXCEPT !.kind = "write", !.fh = fh, !.offset = offset, !.data = data]

ReleaseReq(fh) == [NoReq EXCEPT !.kind = "release", !.fh = fh]

OtherReq == [NoReq EXCEPT !.kind = "other"]

\* op.size(): the length of the payload that follows the write header.
Size(r) == Len(r.data)

\* ------------------------------------------------------------------ replies
ReplyAttr == [kind |-> "attr", val |-> 0]

ReplyOpen(k) == [kind |-> "open", val |-> k]

ReplyWrite(n) == [kind |-> "write", val |-> n]

ReplyUnit == [kind |-> "unit", val |-> 0]

ReplyErr(e) == [kind |-> "err", val |-> e]

\* ---------------------------------------------------------------- startup
\* The four credentials TweetFS::new reads from the environment.
Credentials == {"CONSUMER_KEY", "CONSUMER_SECRET", "ACCESS_TOKEN", "ACCESS_TOKEN_SECRET"}

\* What a run may start with: whether dotenv() finds and loads a .env file;
\* the first argument (absent, a path that is no regular file, a regular
\* file); the credentials set in the environment once .env is loaded.
Envs ==
    [dotenv : BOOLEAN, arg : {"absent", "notfile", "file"}, creds : SUBSET Credentials]

\* ------------------------------------------------------------------- Init
Init ==
    /\ entries = << >>
    /\ next = 0
    /\ lock = 0
    /\ pc = [t \in Tasks |-> "idle"]
    /\ req = [t \in Tasks |-> NoReq]
    /\ replies = [t \in Tasks |-> << >>]
    /\ key = [t \in Tasks |-> 0]
    /\ res = [t \in Tasks |-> "none"]
    /\ published = << >>
    /\ nops = 0
    /\ nfiles = 0
    /\ env \in Envs
    /\ boot = "main"
    /\ exit = -1

\* A task is free to serve a request: it never served one, or its last call
\* returned or panicked.
Free(t) == pc[t] \in {"idle", "returned", "panicked"}

\* main: dotenv::dotenv()? returns the error from main, and the process
\* exits with status 1; otherwise run() is entered.
Dotenv ==
    /\ boot = "main"
    /\ IF env.dotenv
       THEN boot' = "run" /\ exit' = exit
       ELSE boot' = "exited" /\ exit' = 1
    /\ UNCHANGED <<entries, next, lock, pc, req, replies, key, res, published,
                   nops, nfiles, env>>

\* run: the mountpoint argument must be there and be a regular file.
CheckMountpoint ==
    /\ boot = "run"
    /\ boot' = IF env.arg = "file" THEN "new" ELSE "failed"
    /\ UNCHANGED <<entries, next, lock, pc, req, replies, key, res, published,
                   nops, nfiles, env, exit>>

\* TweetFS::new()?: each env::var must be set.
NewFs ==
    /\ boot = "new"
    /\ boot' = IF env.creds = Credentials THEN "mount" ELSE "failed"
    /\ UNCHANGED <<entries, next, lock, pc, req, replies, key, res, published,
                   nops, nfiles, env, exit>>

\* polyfuse_tokio::mount(..) mounts the filesystem and serves requests.
Mount ==
    /\ boot = "mount"
    /\ boot' = "mounted"
    /\ UNCHANGED <<entries, next, lock, pc, req, replies, key, res, published,
                   nops, nfiles, env, exit>>

\* polyfuse_tokio::mount(..) fails to mount and returns the error.
MountFail ==
    /\ boot = "mount"
    /\ boot' = "failed"
    /\ UNCHANGED <<entries, next, lock, pc, req, replies, key, res, published,
                   nops, nfiles, env, exit>>

\* main: the error of run() is logged by tracing::error!, main returns
\* Ok(()) and the process exits with status 0.
LogFailure ==
    /\ boot = "failed"
    /\ boot' = "exited"
    /\ exit' = 0
    /\ UNCHANGED <<entries, next, lock, pc, req, replies, key, res, published,
                   nops, nfiles, env>>

\* The transport hands request r to task t, which enters TweetFS::call; it
\* has requests only once the filesystem is mounted.
Start(t, r) ==
    /\ boot = "mounted"
    /\ Free(t)
    /\ nops < MaxOps
    /\ nops' = nops + 1
    /\ req' = [req EXCEPT ![t] = r]
    /\ key' = [key EXCEPT ![t] = 0]
    /\ res' = [res EXCEPT ![t] = "none"]

\* cx.reply(r) or cx.reply_err(e) of task t.
Send(t, r) == replies' = [replies EXCEPT ![t] = Append(@, r)]

Goto(t, at) == pc' = [pc EXCEPT ![t] = at]

\* self.files.lock().await completes for t.
Acquire(t) == lock = 0 /\ lock' = t

\* The MutexGuard `files` of t goes out of scope.
Drop(t) == lock' = 0

\* (mutant) an absent handle answered as a completed write.
WriteErrSilent(t) ==
    /\ pc[t] = "write_err"
    /\ Send(t, ReplyWrite(Size(req[t])))
    /\ Drop(t)
    /\ Goto(t, "returned")
    /\ UNCHANGED <<env, boot, exit, entries, next, req, key,
                   res, published, nops, nfiles>>

\* (mutant) a write that resizes the buffer of key 0 whatever handle it names.
WriteLockFirst(t) ==
    /\ pc[t] = "write_lock"
    /\ Acquire(t)
    /\ IF Contains(entries, req[t].fh)
       THEN /\ entries' = [entries EXCEPT ![1].val =
                              Resize(@, req[t].offset + Len(req[t].data))]
            /\ Goto(t, "write_read")
       ELSE /\ entries' = entries
            /\ Goto(t, "write_err")
    /\ UNCHANGED <<env, boot, exit, next, req, replies, key,
                   res, published, nops, nfiles>>

\* (mutant) the tweet sent with the raw bytes as its text.
TweetRaw(e, k) == [fh |-> k, file |-> e.file, bytes |-> e.val, text |-> e.val]

\* (mutant) a failed tweet answered as an error of the release.
ReleaseReplyPropagate(t) ==
    /\ pc[t] = "release_reply"
    /\ Send(t, IF res[t] = "err" THEN ReplyErr(EIO) ELSE ReplyUnit)
    /\ Drop(t)
    /\ Goto(t, "returned")
    /\ UNCHANGED <<env, boot, exit, entries, next, req, key,
                   res, published, nops, nfiles>>

\* ---------------------------------------------------------------- Getattr
\* Operation::Getattr: builds the fixed attributes and replies; the table
\* is not touched.
Getattr(t) ==
    /\ Start(t, GetattrReq)
    /\ replies' = [replies EXCEPT ![t] = <<ReplyAttr>>]
    /\ Goto(t, "returned")
    /\ UNCHANGED <<env, boot, exit, entries, next, lock, published, nfiles>>

\* ------------------------------------------------------------------- Open
\* op.flags() & O_ACCMODE: the low two bits of the flags.
AccMode(flags) == flags % (O_ACCMODE + 1)

\* Operation::Open up to the lock: any access mode but O_WRONLY is answered
\* EPERM at once; otherwise the task goes on to take the lock.
Open(t) ==
    \E flags \in OpenFlags :
        /\ Start(t, OpenReq(flags))
        /\ IF AccMode(flags) = O_WRONLY
           THEN /\ replies' = [replies EXCEPT ![t] = << >>]
                /\ Goto(t, "open_lock")
           ELSE /\ replies' = [replies EXCEPT ![t] = <<ReplyErr(EPERM)>>]
                /\ Goto(t, "returned")
        /\ UNCHANGED <<env, boot, exit, entries, next, lock, published, nfiles>>

\* The lock is taken and files.insert(vec![]) runs; the reply is still to be
\* sent, with the guard alive.
OpenInsert(t) ==
    /\ pc[t] = "open_lock"
    /\ Acquire(t)
    /\ key' = [key EXCEPT ![t] = InsertKey(next)]
    /\ entries' = InsertEntries(entries, InsertKey(next), << >>, nfiles + 1)
    /\ next' = InsertNext(entries, next)
    /\ nfiles' = nfiles + 1
    /\ Goto(t, "open_reply")
    /\ UNCHANGED <<env, boot, exit, req, replies, res, published, nops>>

\* cx.reply(ReplyOpen::new(key)) completes and the arm ends.
OpenReply(t) ==
    /\ pc[t] = "open_reply"
    /\ Send(t, ReplyOpen(key[t]))
    /\ key' = [key EXCEPT ![t] = 0]
    /\ Drop(t)
    /\ Goto(t, "returned")
    /\ UNCHANGED <<env, boot, exit, entries, next, req, res,
                   published, nops, nfiles>>

\* ------------------------------------------------------------------ Write
Write(t) ==
    \E fh \in Fhs, data \in Payloads, offset \in 0..MaxLen :
        /\ offset + Len(data) <= MaxLen
        /\ Start(t, WriteReq(fh, offset, data))
        /\ replies' = [replies EXCEPT ![t] = << >>]
        /\ Goto(t, "write_lock")
        /\ UNCHANGED <<env, boot, exit, entries, next, lock, published, nfiles>>

\* content.resize(offset + size, 0) on the entry of fh.
ResizeEntry(e, n) == [e EXCEPT !.val = Resize(e.val, n)]

\* The lock is taken and files.get_mut(fh) runs: an absent key leads to the
\* EIO reply; a present one has its buffer resized to offset + size, and the
\* task then awaits the payload.
WriteLock(t) ==
    /\ pc[t] = "write_lock"
    /\ Acquire(t)
    /\ IF Contains(entries, req[t].fh)
       THEN /\ entries' = [entries EXCEPT ![req[t].fh + 1] =
                              ResizeEntry(@, req[t].offset + Size(req[t]))]
            /\ Goto(t, "write_read")
       ELSE /\ entries' = entries
            /\ Goto(t, "write_err")
    /\ UNCHANGED <<env, boot, exit, next, req, replies, key,
                   res, published, nops, nfiles>>

\* cx.reply_err(EIO) completes and the arm returns.
WriteErr(t) ==
    /\ pc[t] = "write_err"
    /\ Send(t, ReplyErr(EIO))
    /\ Drop(t)
    /\ Goto(t, "returned")
    /\ UNCHANGED <<env, boot, exit, entries, next, req, key,
                   res, published, nops, nfiles>>

\* The entry after read_exact filled content[offset..offset + size].
Filled(e, offset, data) ==
    [e EXCEPT !.val = CopyAt(e.val, offset, data),
              !.hi = IF offset + Len(data) > @ THEN offset + Len(data) ELSE @,
              !.cov = @ \cup {i \in 0..(MaxLen - 1) :
                                 i >= offset /\ i < offset + Len(data)},
              !.ser = CopyAt(Resize(@, offset + Len(data)), offset, data)]

\* reader.read_exact(..).await returns Ok: the payload is in the buffer.
WriteRead(t) ==
    /\ pc[t] = "write_read"
    /\ entries' = [entries EXCEPT ![req[t].fh + 1] =
                      Filled(@, req[t].offset, req[t].data)]
    /\ Goto(t, "write_reply")
    /\ UNCHANGED <<env, boot, exit, next, lock, req, replies,
                   key, res, published, nops, nfiles>>

\* reader.read_exact(..).await returns Err and unwrap() panics: the guard is
\* dropped by the unwinding and nothing is replied.
WriteReadFail(t) ==
    /\ pc[t] = "write_read"
    /\ entries' = [entries EXCEPT ![req[t].fh + 1].torn = TRUE]
    /\ Drop(t)
    /\ Goto(t, "panicked")
    /\ UNCHANGED <<env, boot, exit, next, req, replies, key,
                   res, published, nops, nfiles>>

\* cx.reply(ReplyWrite::new(op.size())) completes and the arm ends.
WriteReply(t) ==
    /\ pc[t] = "write_reply"
    /\ Send(t, ReplyWrite(Size(req[t])))
    /\ Drop(t)
    /\ Goto(t, "returned")
    /\ UNCHANGED <<env, boot, exit, entries, next, req, key,
                   res, published, nops, nfiles>>

\* ---------------------------------------------------------------- Release
Release(t) ==
    \E fh \in Fhs :
        /\ Start(t, ReleaseReq(fh))
        /\ replies' = [replies EXCEPT ![t] = << >>]
        /\ Goto(t, "release_lock")
        /\ UNCHANGED <<env, boot, exit, entries, next, lock, published, nfiles>>

\* What DraftTweet::new(&status).send(..) is called with for the removed
\* entry e of key k: the text, and (history) the key, the file and the bytes
\* it came from.
Tweet(e, k) ==
    [fh |-> k, file |-> e.file, bytes |-> e.val, text |-> from_utf8_lossy(e.val)]

\* The lock is taken and files.remove(fh) runs on a present key: the entry
\* leaves the slab, its bytes are decoded and the tweet is sent; the task
\* awaits the outcome with the guard alive.
ReleaseRemove(t) ==
    /\ pc[t] = "release_lock"
    /\ Contains(entries, req[t].fh)
    /\ Acquire(t)
    /\ entries' = RemoveEntries(entries, next, req[t].fh)
    /\ next' = req[t].fh
    /\ published' = Append(published, Tweet(entries[req[t].fh + 1], req[t].fh))
    /\ Goto(t, "release_publish")
    /\ UNCHANGED <<env, boot, exit, req, replies, key, res, nops, nfiles>>

\* The lock is taken and files.remove(fh) runs on an absent key: Slab::remove
\* panics ("invalid key"); the guard is dropped by the unwinding and nothing
\* is replied.
ReleasePanic(t) ==
    /\ pc[t] = "release_lock"
    /\ ~Contains(entries, req[t].fh)
    /\ lock = 0
    /\ Goto(t, "panicked")
    /\ UNCHANGED <<env, boot, exit, entries, next, lock, req,
                   replies, key, res, published, nops, nfiles>>

\* The future of send(..) completes, with Ok or with Err; the outcome is
\* only traced.
PublishDone(t) ==
    /\ pc[t] = "release_publish"
    /\ \E r \in {"ok", "err"} : res' = [res EXCEPT ![t] = r]
    /\ Goto(t, "release_reply")
    /\ UNCHANGED <<env, boot, exit, entries, next, lock, req,
                   replies, key, published, nops, nfiles>>

\* cx.reply(()) completes and the arm ends.
ReleaseReply(t) ==
    /\ pc[t] = "release_reply"
    /\ Send(t, ReplyUnit)
    /\ Drop(t)
    /\ Goto(t, "returned")
    /\ UNCHANGED <<env, boot, exit, entries, next, req, key,
                   res, published, nops, nfiles>>

\* ------------------------------------------------------------------ others
\* Any other operation: the arm `_ => Ok(())`, which sends nothing itself.
Other(t) ==
    /\ Start(t, OtherReq)
    /\ replies' = [replies EXCEPT ![t] = << >>]
    /\ Goto(t, "returned")
    /\ UNCHANGED <<env, boot, exit, entries, next, lock, published, nfiles>>

Next ==
    \/ Dotenv
    \/ CheckMountpoint
    \/ NewFs
    \/ Mount
    \/ MountFail
    \/ LogFailure
    \/ \E t \in Tasks :
        \/ Getattr(t)
        \/ Open(t)
        \/ OpenInsert(t)
        \/ OpenReply(t)
        \/ Write(t)
        \/ WriteLock(t)
        \/ WriteErr(t)
        \/ WriteRead(t)
        \/ WriteReadFail(t)
        \/ WriteReply(t)
        \/ Release(t)
        \/ ReleaseRemove(t)
        \/ ReleasePanic(t)
        \/ PublishDone(t)
        \/ ReleaseReply(t)
        \/ Other(t)

Spec == Init /\ [][Next]_vars

\* What the runtime and the collaborators guarantee of a task inside
\* TweetFS::call: a reply is delivered, the read of the payload ends (with
\* the bytes or with an error) and the tweet request ends, each in finite
\* time; and tokio's Mutex serves its waiters in turn, so a task that waits
\* for the lock while it keeps becoming free gets it.
Fairness ==
    \A t \in Tasks :
        /\ WF_vars(OpenReply(t))
        /\ WF_vars(WriteErr(t))
        /\ WF_vars(WriteRead(t) \/ WriteReadFail(t))
        /\ WF_vars(WriteReply(t))
        /\ WF_vars(PublishDone(t))
        /\ WF_vars(ReleaseReply(t))
        /\ SF_vars(OpenInsert(t))
        /\ SF_vars(WriteLock(t))
        /\ SF_vars(ReleaseRemove(t) \/ ReleasePanic(t))

FairSpec == Spec /\ Fairness

\* ------------------------------------------------------------ vocabulary
\* The keys present in the table.
Keys == {k \in 0..(Len(entries) - 1) : entries[k + 1].occ}

\* The call of task t has ended, by returning or by panicking.
Ended(t) == pc[t] \in {"returned", "panicked"}

\* Task t is between the resize and the copy of a write.
MidWrite(t) == pc[t] = "write_read"

\* ------------------------------------------------------------------ C1
\* C1: after any sequence of successful writes to an open handle, the
\* buffer's length is the largest offset + size among them and every byte no
\* write covered is zero (so no write shrinks the buffer).  Stated of every
\* present entry on which no write is under way and none was torn by a panic.
C1_LengthIsMaxEnd ==
    \A k \in Keys :
        LET e == entries[k + 1] IN
        (~e.torn /\ ~\E t \in Tasks : MidWrite(t) /\ req[t].fh = k)
            => /\ Len(e.val) = e.hi
               /\ \A i \in 1..Len(e.val) : (i - 1) \notin e.cov => e.val[i] = 0

\* ------------------------------------------------------------------ C2
\* C2: a release of a handle id absent from the table ends with the
\* unknown-handle error reply and never with a panic: every ended release
\* call has returned, having replied success or EIO.
C2_ReleaseNeverPanics ==
    \A t \in Tasks :
        (req[t].kind = "release" /\ Ended(t))
            => /\ pc[t] = "returned"
               /\ replies[t] \in {<<ReplyUnit>>, <<ReplyErr(EIO)>>}

\* ------------------------------------------------------------------ C4
\* C4: the table lock is never held while a publish call is pending.
C4_NoLockAcrossPublish ==
    \A t \in Tasks : pc[t] = "release_publish" => lock # t

\* ------------------------------------------------------------------ C10
\* C10: a write that is receiving its payload from the transport does not
\* hold the table lock.
C10_NoLockAcrossPayload ==
    \A t \in Tasks : pc[t] = "write_read" => lock # t

\* ------------------------------------------------------------------ C3
\* Key h was released at some time.
Released(h) == \E i \in DOMAIN published : published[i].fh = h

\* C3 (as claimed): once a release has removed the entry of id h, every later
\* write addressed to h is answered EIO and changes no buffer, whatever
\* opens ran in between.
C3_WriteAfterReleaseFails ==
    [][\A t \in Tasks :
          (pc[t] = "write_lock" /\ pc'[t] # "write_lock" /\ Released(req[t].fh))
              => (pc'[t] = "write_err" /\ entries' = entries)]_vars

\* C3 (amended): once a release has removed the entry of id h, and until an
\* open is given the number h again, a write addressed to h is answered EIO
\* and changes no buffer; and a key never reaches a released file: no present
\* entry belongs to a file whose tweet was sent.
C3_StaleWriteRejected ==
    /\ [](\A k \in Keys : \A i \in DOMAIN published :
              published[i].file # entries[k + 1].file)
    /\ [][\A t \in Tasks :
            (pc[t] = "write_lock" /\ pc'[t] # "write_lock"
                    /\ Released(req[t].fh) /\ req[t].fh \notin Keys)
                => (pc'[t] = "write_err" /\ entries' = entries)]_vars
    /\ [][\A t \in Tasks :
            (pc[t] = "write_err" /\ pc'[t] # "write_err" /\ Released(req[t].fh))
                => (replies'[t] = <<ReplyErr(EIO)>> /\ entries' = entries)]_vars

\* A write to a released key that no open took again has been answered EIO.
C3_Witness ==
    \E t \in Tasks :
        /\ req[t].kind = "write" /\ pc[t] = "returned"
        /\ replies[t] = <<ReplyErr(EIO)>>
        /\ Released(req[t].fh) /\ req[t].fh \notin Keys

\* ------------------------------------------------------------------ C5
\* C5: a tweet is sent at most once per opened file, exactly once at each
\* removal of a present entry and at no other step, and its text is the lossy
\* UTF-8 decoding of the bytes the buffer held when it was removed.
C5_PublishOncePerRelease ==
    /\ [](\A i, j \in DOMAIN published :
              published[i].file = published[j].file => i = j)
    /\ [](\A i \in DOMAIN published :
              published[i].text = from_utf8_lossy(published[i].bytes))
    /\ [][\A t \in Tasks :
            (pc[t] = "release_lock" /\ pc'[t] # "release_lock" /\ req[t].fh \in Keys)
                => LET e == entries[req[t].fh + 1] IN
                   /\ Len(published') = Len(published) + 1
                   /\ SubSeq(published', 1, Len(published)) = published
                   /\ published'[Len(published')].file = e.file
                   /\ published'[Len(published')].bytes = e.val
                   /\ published'[Len(published')].text = from_utf8_lossy(e.val)]_vars
    /\ [][published' # published
            => \E t \in Tasks :
                  /\ pc[t] = "release_lock" /\ pc'[t] = "release_publish"
                  /\ req[t].fh \in Keys /\ req[t].fh \notin Keys']_vars

\* A buffer holding the two bytes of U+00E9 was published as that one character.
C5_Witness ==
    \E i \in DOMAIN published :
        published[i].bytes = <<195, 169>> /\ published[i].text = <<233>>

\* ------------------------------------------------------------------ C6
\* C6: a write addressed to an id absent from the table is answered EIO,
\* neither panics nor is answered as a success, and changes no entry.
C6_WriteUnknownHandle ==
    /\ [](\A t \in Tasks : pc[t] = "write_err" => replies[t] = << >>)
    /\ [][\A t \in Tasks :
            (pc[t] = "write_lock" /\ pc'[t] # "write_lock" /\ req[t].fh \notin Keys)
                => (pc'[t] = "write_err" /\ entries' = entries /\ next' = next)]_vars
    /\ [][\A t \in Tasks :
            pc[t] = "write_err"
                => /\ entries' = entries /\ next' = next
                   /\ pc'[t] # "write_err"
                        => (pc'[t] = "returned" /\ replies'[t] = <<ReplyErr(EIO)>>)]_vars

\* A write to key 1, which no open ever returned, was answered EIO while key
\* 0 is present.
C6_Witness ==
    \E t \in Tasks :
        /\ req[t].kind = "write" /\ req[t].fh = 1 /\ pc[t] = "returned"
        /\ replies[t] = <<ReplyErr(EIO)>>
        /\ Keys = {0} /\ published = << >>

\* ------------------------------------------------------------------ C7
\* C7: every open is given a key that is not present when it is inserted,
\* adds exactly that one entry and leaves the present ones as they are, and
\* replies that key; no two present entries belong to the same open.
C7_OpensGetDistinctKeys ==
    /\ [](\A k1, k2 \in Keys :
              entries[k1 + 1].file = entries[k2 + 1].file => k1 = k2)
    /\ [][\A t \in Tasks :
            (pc[t] = "open_lock" /\ pc'[t] # "open_lock")
                => /\ key'[t] \notin Keys
                   /\ Keys' = Keys \cup {key'[t]}
                   /\ \A k \in Keys : entries'[k + 1] = entries[k + 1]]_vars
    /\ [][\A t \in Tasks :
            (pc[t] = "open_reply" /\ pc'[t] # "open_reply")
                => (replies'[t] = <<ReplyOpen(key[t])>> /\ key[t] \in Keys)]_vars

\* Two opens have returned keys 0 and 1 and both entries are present.
C7_Witness ==
    \E t, u \in Tasks :
        /\ t # u /\ pc[t] = "returned" /\ pc[u] = "returned"
        /\ req[t].kind = "open" /\ req[u].kind = "open"
        /\ replies[t] = <<ReplyOpen(0)>> /\ replies[u] = <<ReplyOpen(1)>>
        /\ Keys = {0, 1}

\* ------------------------------------------------------------------ C8
\* C8: a release that removed its entry replies success whether the tweet
\* succeeded or failed; the only error replies are EPERM to an open and EIO
\* to a write; and nothing enters the table while the outcome is awaited or
\* the reply is sent.
C8_ReleaseRepliesSuccess ==
    /\ [](\A t \in Tasks :
              (req[t].kind = "release" /\ pc[t] = "returned")
                  => (replies[t] = <<ReplyUnit>> /\ res[t] \in {"ok", "err"}))
    /\ [](\A t \in Tasks : \A i \in DOMAIN replies[t] :
              replies[t][i].kind = "err"
                  => \/ req[t].kind = "open" /\ replies[t][i].val = EPERM
                     \/ req[t].kind = "write" /\ replies[t][i].val = EIO)
    /\ [][\A t \in Tasks :
            pc[t] \in {"release_publish", "release_reply"}
                => (entries' = entries /\ next' = next)]_vars

\* A release whose tweet failed has returned after replying success.
C8_Witness ==
    \E t \in Tasks :
        /\ req[t].kind = "release" /\ pc[t] = "returned"
        /\ res[t] = "err" /\ replies[t] = <<ReplyUnit>>
        /\ req[t].fh \notin Keys

\* ------------------------------------------------------------------ C9
\* The access mode of the open request of task t is O_WRONLY.
WriteOnly(t) == req[t].flags % 4 = 1

\* C9: an open whose access mode is not O_WRONLY is answered EPERM at once,
\* never waits for or holds the lock and changes nothing of the table; an
\* open with O_WRONLY that returns has replied the key of the entry it
\* inserted, which is present when the reply is sent.
C9_OpenAccessMode ==
    /\ [](\A t \in Tasks :
              (req[t].kind = "open" /\ ~WriteOnly(t))
                  => /\ pc[t] = "returned" /\ lock # t
                     /\ replies[t] = <<ReplyErr(EPERM)>>)
    /\ [](\A t \in Tasks :
              (req[t].kind = "open" /\ WriteOnly(t) /\ Ended(t))
                  => /\ pc[t] = "returned"
                     /\ \E k \in 0..(Len(entries) - 1) : replies[t] = <<ReplyOpen(k)>>)
    /\ [](\A t \in Tasks :
              pc[t] = "open_reply"
                  => /\ key[t] \in Keys /\ lock = t
                     /\ entries[key[t] + 1].file = nfiles)
    /\ [][nops' # nops
            => (entries' = entries /\ next' = next /\ lock' = lock
                    /\ nfiles' = nfiles)]_vars
    /\ [][\A t \in Tasks :
            (pc[t] = "open_reply" /\ pc'[t] # "open_reply")
                => replies'[t] = <<ReplyOpen(key[t])>>]_vars

\* A read-write open was answered EPERM and an O_WRONLY | O_APPEND open was
\* given key 0, the only entry of the table.
C9_Witness ==
    \E t, u \in Tasks :
        /\ req[t] = OpenReq(2) /\ pc[t] = "returned"
        /\ replies[t] = <<ReplyErr(EPERM)>>
        /\ req[u] = OpenReq(1025) /\ pc[u] = "returned"
        /\ replies[u] = <<ReplyOpen(0)>>
        /\ Keys = {0} /\ nfiles = 1

\* ------------------------------------------------------------------ C11
\* C11: the buffer a release hands to publish is what the writes completed
\* on the handle give when applied whole, one after another, in the order
\* they took the lock: it holds no write that was resized but not copied; and
\* what was handed over is never changed by a later write.
C11_PublishedIsSerial ==
    [][/\ \A t \in Tasks :
            (pc[t] = "release_lock" /\ pc'[t] = "release_publish")
                => entries[req[t].fh + 1].val = entries[req[t].fh + 1].ser
       /\ Len(published') >= Len(published)
       /\ SubSeq(published', 1, Len(published)) = published]_vars

\* ------------------------------------------------------------------ C12
\* C12: a write has no partial outcome.  A write call that has ended has
\* returned, having replied either the full byte count or EIO; when the
\* success reply is due the buffer holds the whole payload at
\* [offset, offset + size); and no entry is left resized without the payload
\* copied in.
C12_NoPartialWrite ==
    /\ \A t \in Tasks :
          (req[t].kind = "write" /\ Ended(t))
              => /\ pc[t] = "returned"
                 /\ replies[t] \in {<<ReplyWrite(Size(req[t]))>>, <<ReplyErr(EIO)>>}
    /\ \A t \in Tasks :
          pc[t] = "write_reply"
              => LET v == entries[req[t].fh + 1].val IN
                 /\ Len(v) >= req[t].offset + Size(req[t])
                 /\ SubSeq(v, req[t].offset + 1, req[t].offset + Size(req[t]))
                        = req[t].data
    /\ \A k \in Keys : ~entries[k + 1].torn

\* ------------------------------------------------------------------ C13
\* C13: every request gets exactly one reply or error code.  Stated of the
\* four operations the handler answers itself (the arm for any other
\* operation sends nothing of its own): no call sends two replies, and a
\* call that has ended has sent one.
C13_ExactlyOneReply ==
    \A t \in Tasks :
        /\ Len(replies[t]) <= 1
        /\ (Ended(t) /\ req[t].kind \in {"getattr", "open", "write", "release"})
              => Len(replies[t]) = 1

\* ------------------------------------------------------------------ C14
\* C14: the key an open replies names, when the reply is sent, a present
\* entry whose buffer is empty, also when the key was used by a released
\* handle before.
C14_OpenedBufferEmpty ==
    /\ [](\A t \in Tasks :
              pc[t] = "open_reply"
                  => (key[t] \in Keys /\ entries[key[t] + 1].val = << >>))
    /\ [][\A t \in Tasks :
            (pc[t] = "open_reply" /\ pc'[t] # "open_reply")
                => /\ replies'[t] = <<ReplyOpen(key[t])>>
                   /\ key[t] \in Keys'
                   /\ entries'[key[t] + 1].val = << >>]_vars

\* An open has been given key 0 again after a release published the bytes
\* that key 0 held, and its buffer is empty.
C14_Witness ==
    \E t \in Tasks :
        /\ req[t].kind = "open" /\ pc[t] = "returned"
        /\ replies[t] = <<ReplyOpen(0)>>
        /\ 0 \in Keys /\ entries[1].val = << >>
        /\ \E i \in DOMAIN published :
              /\ published[i].fh = 0 /\ published[i].bytes # << >>
              /\ published[i].file < entries[1].file

\* ------------------------------------------------------------------ C15
\* Index i (from 1) lies in the interval the write request r covers.
Inside(r, i) == i > r.offset /\ i <= r.offset + Size(r)

\* C15: a write changes nothing outside its interval.  The resize keeps every
\* byte below the previous length that lies outside the interval (stated of
\* buffers that only completed writes have touched); the copy puts the
\* payload in the interval and leaves every other byte and the length as
\* they are.
C15_WritePreservesOutside ==
    [][\A t \in Tasks :
          LET old == entries[req[t].fh + 1].val
              new == entries'[req[t].fh + 1].val
          IN  /\ (pc[t] = "write_lock" /\ pc'[t] = "write_read"
                        /\ ~entries[req[t].fh + 1].torn)
                    => \A i \in 1..Len(old) :
                          ~Inside(req[t], i) => (i <= Len(new) /\ new[i] = old[i])
              /\ (pc[t] = "write_read" /\ pc'[t] = "write_reply")
                    => /\ Len(new) = Len(old)
                       /\ \A i \in 1..Len(old) :
                             new[i] = IF Inside(req[t], i)
                                      THEN req[t].data[i - req[t].offset]
                                      ELSE old[i]]_vars

\* ------------------------------------------------------------------ C16
\* C16: when the mountpoint is not given or is no regular file, or one of
\* the four credentials is not set, the filesystem is never mounted, no
\* request is served, and the process exits with a nonzero status.
C16_StartupFailStop ==
    (env.arg # "file" \/ env.creds # Credentials)
        => /\ boot # "mounted"
           /\ nops = 0
           /\ boot = "exited" => exit # 0

\* ------------------------------------------------------------------ C17
\* C17: the entry of key k leaves the table, or its buffer changes, only in
\* a step of a write or a release addressed to k; attribute queries, opens,
\* other operations, and writes and releases on other handles leave it as
\* it is.
C17_HandlesIsolated ==
    [][\A k \in Keys :
          (\/ k \notin Keys'
           \/ entries'[k + 1].val # entries[k + 1].val
           \/ entries'[k + 1].file # entries[k + 1].file)
              => \E t \in Tasks :
                    /\ req[t].kind \in {"write", "release"} /\ req[t].fh = k
                    /\ pc[t] \in {"write_lock", "write_read", "release_lock"}
                    /\ pc'[t] # pc[t]]_vars

\* Key 0 was released and key 1 was written while both were present; key 1
\* is still there with its byte.
C17_Witness ==
    /\ Keys = {1} /\ entries[2].val = <<97>>
    /\ Len(published) = 1 /\ published[1].fh = 0
    /\ published[1].file < entries[2].file

\* ------------------------------------------------------------------ C18
\* C18: the present entries are those of the opens so far whose entry no
\* release has removed; an entry leaves the table only in the step of a
\* release addressed to its key, and until then keeps its key.
C18_RemovedOnlyByRelease ==
    /\ []({entries[k + 1].file : k \in Keys}
              = (1..nfiles) \ {published[i].file : i \in DOMAIN published})
    /\ [](Cardinality(Keys) = nfiles - Len(published))
    /\ [][\A k \in Keys :
            IF k \in Keys'
            THEN entries'[k + 1].file = entries[k + 1].file
            ELSE \E t \in Tasks :
                    /\ pc[t] = "release_lock" /\ pc'[t] = "release_publish"
                    /\ req[t].fh = k]_vars

\* The first file opened is still at key 0, never released, after the second
\* one was opened and released and every call has ended.
C18_Witness ==
    /\ Keys = {0} /\ entries[1].file = 1
    /\ nfiles = 2 /\ Len(published) = 1 /\ published[1].file = 2
    /\ \A t \in Tasks : Free(t)
    /\ nops = MaxOps

\* ------------------------------------------------------------------ C19
\* Task t waits for the table lock.
Pending(t) == pc[t] \in {"open_lock", "write_lock", "release_lock"}

\* C19: a task that holds the lock gives it up, and every open, write and
\* release that waits for the lock gets it and then gets its reply.
C19_LockFreedAndReplied ==
    \A t \in Tasks :
        /\ (lock = t) ~> (lock # t)
        /\ Pending(t) ~> (pc[t] = "returned" /\ Len(replies[t]) = 1)

====
